---- MODULE Spec2Model ----
(***************************************************************************)
(* Model of the shared-state channel `useShared` of src/src/app/page.tsx   *)
(* (lines 774-860) as used by the Home component (lines 1043-1077).        *)
(*                                                                         *)
(* One client (one mounted Home component, one key) talks to the kv_store  *)
(* row of its key.  Every asynchronous operation of the code is split at   *)
(* its await: the request is dispatched, the store serves it, and the      *)
(* continuation after the await runs when the response arrives.  A React   *)
(* state update, the render it causes and the effects of that render are   *)
(* one step: nothing else runs on the event loop in between.               *)
(*                                                                         *)
(* The recurrence engine of Home (prune and generate effects, lines        *)
(* 1080-1146, with the date utilities of lines 714-752 and 886-902) is     *)
(* modelled on the events collection, the clock and the host's timezone,   *)
(* under its own specification SpecTick.  The operations of the users on   *)
(* the collection (lines 1215-1344) are SpecOps, the date and time         *)
(* utilities on civil dates SpecCivil, the feed (lines 1150-1196) SpecFeed,*)
(* the interval and the updaters queued on the events state SpecInterval,  *)
(* and joinEvent / applyForSlot of the table-backed page (lines 270-307)   *)
(* SpecTable.                                                              *)
(***************************************************************************)
EXTENDS Integers, Sequences, FiniteSets, Bags, TLC

\* ---------------------------------------------------------------- bounds
\* Well-formed documents are numbered 0..MaxDoc.
MaxDoc == 1
\* Events from outside the channel (local setValue calls, writes by other
\* clients, re-renders of Home, transport failures) in one behaviour.
MaxOps == 2

\* ---------------------------------------------------------------- values
\* A JSON payload: a well-formed list (document n), a JSON value of another
\* shape, or null / no row.
Doc(n) == [kind |-> "list", n |-> n]
Docs == {Doc(n) : n \in 0..MaxDoc}
Malformed == [kind |-> "object", n |-> 0]
Absent == [kind |-> "null", n |-> 0]
Payloads == Docs \cup {Malformed, Absent}
\* What a response can be besides a payload.
Err == [kind |-> "error", n |-> 0]
Sent == [kind |-> "sent", n |-> 0]
\* No fetch of the load effect's last run in flight.
NoLoad == [kind |-> "noload", n |-> 0]
\* No timeout pending.
NoTimer == [kind |-> "none", n |-> 0]

\* The caller-supplied default: `[]` for "events", initialUsers() for "users".
\* A new object on every render, with the same content.
initial == Doc(0)

\* The empty string lastSavedStr starts with.
EmptyStr == <<>>

\* JSON.stringify: the text of a value.  A list prints as "[...]", an object
\* as "{...}"; different contents print differently.  The values here come
\* from JSON or are lists built locally, so stringify never throws and the
\* catch branch (the empty string) is never taken.
j(v) == IF v.kind = "list" THEN <<"[", v.n, "]">> ELSE <<"{", v.n, "}">>

VARIABLES
    store,          \* kv_store.value of the key (Absent: no row, or null)
    storeOwn,       \* the stored value was written by this channel
    value,          \* useState value
    ready,          \* useState ready
    lastSavedStr,   \* lastSavedStr.current
    subInitRef,     \* subInitRef.current
    subCleanup,     \* the subscription effect's last run returned a cleanup
    channels,       \* realtime channels of this component that are subscribed
    timer,          \* the pending timeout's captured `cur`, or NoTimer
    load,           \* the response of the fetch of the load effect's last run
    stale,          \* a fetch of an earlier run (alive = false) is in flight
    saves,          \* bag of kvSave calls in flight: [cur, res, late, flush]
    fetches,        \* bag of notification re-fetches in flight: [res, own]
    notifs,         \* change notifications on their way to the handler
    mounted,        \* the component is mounted
    ops,            \* outside events so far
    burst,          \* setValue arguments of the current debounce window
    last,           \* what the last step did
    events,         \* the events collection of Home (useShared "events")
    now,            \* the clock: Date.now(), in minutes since the epoch
    host,           \* the host's timezone offset, minutes east of UTC
    tickLast,       \* what the last step on the events collection did
    steps,          \* operations on the events collection so far
    interval,       \* the 15 s interval of Home is armed
    queue,          \* updaters queued on the events state, not rendered
    fellBack,       \* the last load gave the default, and no setValue
                    \* of another text came after it
    partRows,       \* table participants: the user_id of the event's rows
    openForApps,    \* table events: open_for_applications of the event
    snapshot,       \* per client: the event in its `events` state
    pc              \* per client: where its joinEvent / applyForSlot is

chanVars == <<store, storeOwn, value, ready, lastSavedStr, subInitRef,
              subCleanup, channels, timer, load, stale, saves, fetches, notifs,
              mounted, ops, burst, last>>

homeVars == <<interval, queue>>

tableVars == <<partRows, openForApps, snapshot, pc>>

tickVars == <<events, now, host, tickLast, steps, homeVars, tableVars>>

vars == <<chanVars, tickVars, fellBack>>

\* ---------------------------------------------------------------- helpers
Put(b, e) == b (+) SetToBag({e})
Take(b, e) == b (-) SetToBag({e})
Elems(b) == BagToSet(b)

\* The record of a step: the action, the payload it handled, whether
\* setTimeout was called, whether a fetched payload was this channel's own
\* write, whether a save was dispatched after the unmount, and the response
\* a save continuation got (Sent: none).
What(act, val, armed, own, late) ==
    [act |-> act, val |-> val, armed |-> armed, own |-> own, late |-> late,
     res |-> Sent]
Did(act, val) == What(act, val, FALSE, FALSE, FALSE)

\* kvLoad's result for a response: the fallback on an error, on no row and
\* on a null value; otherwise the stored JSON, whatever its shape.
kvLoad(res, fallback) ==
    IF res = Err THEN fallback
    ELSE IF res = Absent THEN fallback
    ELSE res

\* scheduleSave without the comparison with lastSavedStr.current.
scheduleSaveAlways(cur, lastStr, t) == <<cur, TRUE>>

\* scheduleSave(cur) with timeout t pending: <<the timeout pending
\* afterwards, setTimeout was called>>.
scheduleSave(cur, lastStr, t) ==
    IF j(cur) = lastStr THEN <<t, FALSE>> ELSE <<cur, TRUE>>

\* ---------------------------------------------------------------- render
\* The load effect (deps [key, initial]): `initial` is a new object on every
\* render, so the effect runs again.  Its cleanup sets alive = false in the
\* closure of the last run: <<load, stale>> afterwards.
LoadCleanup(l, st) ==
    IF l = NoLoad THEN <<NoLoad, st>> ELSE <<NoLoad, TRUE>>
\* Then the body calls kvLoad.
LoadEffect(l, st) == <<Sent, LoadCleanup(l, st)[2]>>

\* The persist effect (deps [value, ready, scheduleSave]).
PersistEffect(changed, v, r, lastStr, t) ==
    IF changed /\ r THEN scheduleSave(v, lastStr, t) ELSE <<t, FALSE>>

\* The subscription effect's cleanup without removeChannel.
SubCleanupKeep(ch, ref, cl) ==
    IF cl THEN <<ch, FALSE>> ELSE <<ch, ref>>

\* The subscription effect (deps [key, ready, initial]): the cleanup of the
\* last run gives <<channels, subInitRef>>, then the body gives
\* <<channels, subInitRef, subCleanup>>.
SubCleanupRun(ch, ref, cl) ==
    IF cl THEN <<ch - 1, FALSE>> ELSE <<ch, ref>>
SubEffect(r, ch, ref, cl) ==
    LET c == SubCleanupRun(ch, ref, cl)
    IN  IF ~r THEN <<c[1], c[2], FALSE>>
        ELSE IF c[2] THEN <<c[1], c[2], FALSE>>
        ELSE <<c[1] + 1, TRUE, TRUE>>

\* A render of Home and its effects, with value v and ready r.
\* `changed`: value or ready is a new one.  `l`: the fetch of the last run.
\* `lastStr`: lastSavedStr.current when the effects run.
Render(changed, v, r, l, lastStr) ==
    LET s == SubEffect(r, channels, subInitRef, subCleanup)
    IN  /\ load' = LoadEffect(l, stale)[1]
        /\ stale' = LoadEffect(l, stale)[2]
        /\ timer' = PersistEffect(changed, v, r, lastStr, timer)[1]
        /\ channels' = s[1]
        /\ subInitRef' = s[2]
        /\ subCleanup' = s[3]
        \* notifications on their way to the removed channel may be lost
        /\ notifs' \in (IF subCleanup THEN {0, notifs} ELSE {notifs})

\* setTimeout is called in that render.
Arms(changed, v, r, lastStr) ==
    PersistEffect(changed, v, r, lastStr, timer)[2]

\* ---------------------------------------------------------------- actions
ChanInit ==
    /\ store \in Payloads
    /\ storeOwn = FALSE
    /\ value = initial
    /\ ready = FALSE
    /\ lastSavedStr = EmptyStr
    /\ subInitRef = FALSE
    /\ subCleanup = FALSE
    /\ channels = 0
    /\ timer = NoTimer
    /\ load = Sent
    /\ stale = FALSE
    /\ saves = EmptyBag
    /\ fetches = EmptyBag
    /\ notifs = 0
    /\ mounted = TRUE
    /\ fellBack = FALSE
    /\ ops = 0
    /\ burst = <<>>
    /\ last = Did("Init", initial)

\* The clients of the table-backed page: the users logged in on them.
Clients == {4, 5}

Idle == [at |-> "idle", n |-> 0, op |-> "none"]

\* The table-backed page is not in use.
TableIdle ==
    /\ partRows = {}
    /\ openForApps = TRUE
    /\ snapshot = [c \in Clients |-> [participants |-> {}, open |-> TRUE]]
    /\ pc = [c \in Clients |-> Idle]

\* The channel of one key; the recurrence engine is at rest.
Init ==
    /\ ChanInit
    /\ TableIdle
    /\ events = <<>>
    /\ now = 0
    /\ host = 0
    /\ tickLast = [act |-> "Init", before |-> <<>>]
    /\ steps = 0
    /\ interval = TRUE
    /\ queue = <<>>

\* The store answers the fetch of the load effect's last run.
LoadServe ==
    /\ UNCHANGED <<tickVars, fellBack>>
    /\ load = Sent
    /\ load' = store
    /\ last' = Did("LoadServe", store)
    /\ UNCHANGED <<store, storeOwn, value, ready, lastSavedStr, subInitRef,
                   subCleanup, channels, timer, stale, saves, fetches, notifs,
                   mounted, ops, burst>>

\* That fetch fails in transport.
LoadFail ==
    /\ UNCHANGED <<tickVars, fellBack>>
    /\ load = Sent
    /\ ops < MaxOps
    /\ ops' = ops + 1
    /\ load' = Err
    /\ last' = Did("LoadFail", Err)
    /\ UNCHANGED <<store, storeOwn, value, ready, lastSavedStr, subInitRef,
                   subCleanup, channels, timer, stale, saves, fetches, notifs,
                   mounted, burst>>

\* The continuation of the load effect after `await kvLoad`, alive.
LoadComplete ==
    /\ UNCHANGED tickVars
    /\ fellBack' = (load \in {Err, Absent})
    /\ load \notin {NoLoad, Sent}
    /\ value' = kvLoad(load, initial)
    /\ lastSavedStr' = j(value')
    /\ ready' = TRUE
    /\ Render(TRUE, value', TRUE, NoLoad, lastSavedStr')
    /\ last' = What("LoadComplete", load,
                    Arms(TRUE, value', TRUE, lastSavedStr'), FALSE, FALSE)
    /\ burst' = <<>>
    /\ UNCHANGED <<store, storeOwn, saves, fetches, mounted, ops>>

\* The same continuation with alive = false: it returns.  The step is the
\* last of the earlier runs' fetches coming back.
LoadStale ==
    /\ UNCHANGED <<tickVars, fellBack>>
    /\ stale
    /\ stale' = FALSE
    /\ last' = Did("LoadStale", Sent)
    /\ UNCHANGED <<store, storeOwn, value, ready, lastSavedStr, subInitRef,
                   subCleanup, channels, timer, load, saves, fetches, notifs,
                   mounted, ops, burst>>

\* A local mutation: setValue(v), then the render.
SetValue(v) ==
    /\ UNCHANGED tickVars
    /\ fellBack' = (fellBack /\ j(v) = j(initial))
    /\ mounted
    /\ ops < MaxOps
    /\ ops' = ops + 1
    /\ value' = v
    /\ Render(TRUE, v, ready, load, lastSavedStr)
    /\ burst' = IF ready /\ (burst # <<>> \/ timer = NoTimer)
                THEN Append(burst, v) ELSE <<>>
    /\ last' = What("SetValue", v, Arms(TRUE, v, ready, lastSavedStr),
                    FALSE, FALSE)
    /\ UNCHANGED <<store, storeOwn, ready, lastSavedStr, saves, fetches,
                   mounted>>

\* Home renders again for another reason (nowTick, a form field, the other
\* channel): value and ready are the same.
Rerender ==
    /\ UNCHANGED <<tickVars, fellBack>>
    /\ mounted
    /\ ops < MaxOps
    /\ ops' = ops + 1
    /\ Render(FALSE, value, ready, load, lastSavedStr)
    /\ burst' = <<>>
    /\ last' = What("Rerender", value,
                    Arms(FALSE, value, ready, lastSavedStr), FALSE, FALSE)
    /\ UNCHANGED <<store, storeOwn, value, ready, lastSavedStr, saves, fetches,
                   mounted>>

\* The callback of a timer that repeats every 250 ms (setInterval): kvSave
\* is dispatched and the timer stays armed.
TimerFireInterval ==
    /\ UNCHANGED <<tickVars, fellBack>>
    /\ timer # NoTimer
    /\ saves' = Put(saves, [cur |-> timer, res |-> Sent, late |-> ~mounted,
                             flush |-> FALSE])
    /\ burst' = <<>>
    /\ last' = What("TimerFire", timer, FALSE, FALSE, ~mounted)
    /\ UNCHANGED <<store, storeOwn, value, ready, lastSavedStr, subInitRef,
                   subCleanup, channels, timer, load, stale, fetches, notifs,
                   mounted, ops>>

\* The 250 ms timeout fires: kvSave(key, cur) is dispatched.
TimerFire ==
    /\ UNCHANGED <<tickVars, fellBack>>
    /\ timer # NoTimer
    /\ saves' = Put(saves, [cur |-> timer, res |-> Sent, late |-> ~mounted,
                             flush |-> FALSE])
    /\ timer' = NoTimer
    /\ burst' = <<>>
    /\ last' = What("TimerFire", timer, FALSE, FALSE, ~mounted)
    /\ UNCHANGED <<store, storeOwn, value, ready, lastSavedStr, subInitRef,
                   subCleanup, channels, load, stale, fetches, notifs, mounted, ops>>

\* The response of a save that reached the store.
Ok == [kind |-> "ok", n |-> 0]

\* The store applies an upsert and notifies the subscribed channel.
SaveServe ==
    \E s \in Elems(saves) :
        /\ UNCHANGED <<tickVars, fellBack>>
        /\ s.res = Sent
        /\ store' = s.cur
        /\ storeOwn' = TRUE
        /\ notifs' = notifs + channels
        /\ saves' = Put(Take(saves, s), [s EXCEPT !.res = Ok])
        /\ last' = What("SaveServe", s.cur, FALSE, FALSE, s.late)
        /\ UNCHANGED <<value, ready, lastSavedStr, subInitRef, subCleanup,
                       channels, timer, load, stale, fetches, mounted, ops, burst>>

\* An upsert fails in transport.
SaveFail ==
    \E s \in Elems(saves) :
        /\ UNCHANGED <<tickVars, fellBack>>
        /\ s.res = Sent
        /\ ops < MaxOps
        /\ ops' = ops + 1
        /\ saves' = Put(Take(saves, s), [s EXCEPT !.res = Err])
        /\ last' = What("SaveFail", s.cur, FALSE, FALSE, s.late)
        /\ UNCHANGED <<store, storeOwn, value, ready, lastSavedStr, subInitRef,
                       subCleanup, channels, timer, load, stale, fetches, notifs,
                       mounted, burst>>

\* The continuation of the timeout callback after `await kvSave`, with a
\* retry when the save failed: the timeout is armed again for the value.
SaveCompleteRetry ==
    \E s \in Elems(saves) :
        /\ UNCHANGED <<tickVars, fellBack>>
        /\ s.res # Sent
        /\ ~s.flush
        /\ saves' = Take(saves, s)
        /\ lastSavedStr' = IF s.res = Err THEN lastSavedStr ELSE j(s.cur)
        /\ timer' = IF s.res = Err THEN s.cur ELSE timer
        /\ burst' = <<>>
        /\ last' = [What("SaveComplete", s.cur, s.res = Err, FALSE, s.late)
                        EXCEPT !.res = s.res]
        /\ UNCHANGED <<store, storeOwn, value, ready, subInitRef, subCleanup,
                       channels, load, stale, fetches, notifs, mounted, ops>>

\* The continuation of the timeout callback after `await kvSave`; kvSave
\* only warns on an error.
SaveComplete ==
    \E s \in Elems(saves) :
        /\ UNCHANGED <<tickVars, fellBack>>
        /\ s.res # Sent
        /\ ~s.flush
        /\ saves' = Take(saves, s)
        /\ lastSavedStr' = j(s.cur)
        /\ burst' = <<>>
        /\ last' = [What("SaveComplete", s.cur, FALSE, FALSE, s.late)
                        EXCEPT !.res = s.res]
        /\ UNCHANGED <<store, storeOwn, value, ready, subInitRef, subCleanup,
                       channels, timer, load, stale, fetches, notifs, mounted, ops>>

\* deleteEvent, the create branch of upsertEvent, adminCreateUser: the
\* setValue updater computes next, calls kvSave(key, next) itself and returns
\* next; then the render.  deleteEvent and upsertEvent do not look at ready.
Flush(v) ==
    /\ UNCHANGED tickVars
    /\ fellBack' = (fellBack /\ j(v) = j(initial))
    /\ mounted
    /\ ops < MaxOps
    /\ ops' = ops + 1
    /\ value' = v
    /\ saves' = Put(saves, [cur |-> v, res |-> Sent, late |-> FALSE,
                            flush |-> TRUE])
    /\ Render(TRUE, v, ready, load, lastSavedStr)
    /\ burst' = <<>>
    /\ last' = What("Flush", v, Arms(TRUE, v, ready, lastSavedStr),
                    FALSE, FALSE)
    /\ UNCHANGED <<store, storeOwn, ready, lastSavedStr, fetches, mounted>>

\* The promise of such a kvSave settles: only .catch is attached to it.
FlushComplete ==
    \E s \in Elems(saves) :
        /\ UNCHANGED <<tickVars, fellBack>>
        /\ s.res # Sent
        /\ s.flush
        /\ saves' = Take(saves, s)
        /\ burst' = <<>>
        /\ last' = [What("FlushComplete", s.cur, FALSE, FALSE, s.late)
                        EXCEPT !.res = s.res]
        /\ UNCHANGED <<store, storeOwn, value, ready, lastSavedStr, subInitRef,
                       subCleanup, channels, timer, load, stale, fetches,
                       notifs, mounted, ops>>

\* Another client writes the row.
RemoteWrite(v) ==
    /\ UNCHANGED <<tickVars, fellBack>>
    /\ ops < MaxOps
    /\ ops' = ops + 1
    /\ store' = v
    /\ storeOwn' = FALSE
    /\ notifs' = notifs + channels
    /\ last' = Did("RemoteWrite", v)
    /\ UNCHANGED <<value, ready, lastSavedStr, subInitRef, subCleanup, channels,
                   timer, load, stale, saves, fetches, mounted, burst>>

\* A postgres_changes notification reaches the handler, which calls kvLoad
\* and does nothing else before the await: the step is the store answering
\* that re-fetch.
Notify ==
    /\ UNCHANGED <<tickVars, fellBack>>
    /\ notifs > 0
    /\ notifs' = notifs - 1
    /\ fetches' = Put(fetches, [res |-> store, own |-> storeOwn])
    /\ last' = What("Notify", store, FALSE, storeOwn, FALSE)
    /\ UNCHANGED <<store, storeOwn, value, ready, lastSavedStr, subInitRef,
                   subCleanup, channels, timer, load, stale, saves, mounted,
                   ops, burst>>

\* The same with a re-fetch that fails in transport.
NotifyFail ==
    /\ UNCHANGED <<tickVars, fellBack>>
    /\ notifs > 0
    /\ ops < MaxOps
    /\ ops' = ops + 1
    /\ notifs' = notifs - 1
    /\ fetches' = Put(fetches, [res |-> Err, own |-> FALSE])
    /\ last' = Did("NotifyFail", Err)
    /\ UNCHANGED <<store, storeOwn, value, ready, lastSavedStr, subInitRef,
                   subCleanup, channels, timer, load, stale, saves, mounted,
                   burst>>

\* The handler's branch taken when latestStr !== lastSavedStr.current,
\* without the assignment to the ref.
AbsorbNoRef(f, latest) ==
    /\ lastSavedStr' = lastSavedStr
    /\ IF mounted
       THEN /\ value' = latest
            /\ Render(TRUE, latest, ready, load, lastSavedStr)
            /\ last' = What("Absorb", f.res,
                            Arms(TRUE, latest, ready, lastSavedStr),
                            f.own, FALSE)
       ELSE /\ last' = What("Absorb", f.res, FALSE, f.own, FALSE)
            /\ UNCHANGED <<value, subInitRef, subCleanup, channels, timer,
                           load, stale, notifs>>

\* The handler's branch taken when latestStr !== lastSavedStr.current: the
\* ref is set, then setValue(latest); a state update of an unmounted
\* component does nothing.
Absorb(f, latest) ==
    /\ lastSavedStr' = j(latest)
    /\ IF mounted
       THEN /\ value' = latest
            /\ Render(TRUE, latest, ready, load, lastSavedStr')
            /\ last' = What("Absorb", f.res,
                            Arms(TRUE, latest, ready, lastSavedStr'),
                            f.own, FALSE)
       ELSE /\ last' = What("Absorb", f.res, FALSE, f.own, FALSE)
            /\ UNCHANGED <<value, subInitRef, subCleanup, channels, timer,
                           load, stale, notifs>>

\* The handler's comparison, made with the text of the in-memory value.
IsEchoOfValue(latest) == j(latest) = j(value)

\* The handler's comparison: latestStr === lastSavedStr.current.
IsEcho(latest) == j(latest) = lastSavedStr

\* The continuation of the notification handler after `await kvLoad`.
FetchComplete ==
    \E f \in Elems(fetches) :
        /\ UNCHANGED <<tickVars, fellBack>>
        /\ fetches' = Take(fetches, f)
        /\ LET latest == kvLoad(f.res, initial)
           IN  IF ~IsEcho(latest)
               THEN Absorb(f, latest)
               ELSE /\ last' = What("Echo", f.res, FALSE, f.own, FALSE)
                    /\ UNCHANGED <<value, lastSavedStr, subInitRef, subCleanup,
                                   channels, timer, load, stale, notifs>>
        /\ burst' = <<>>
        /\ UNCHANGED <<store, storeOwn, ready, saves, mounted, ops>>

\* clearInterval that leaves the interval armed.
clearIntervalNot(t) == t

\* clearInterval(t) in the cleanup of the interval effect.
clearInterval(t) == FALSE

\* Home unmounts: the cleanups of the load, subscription and interval
\* effects run, and React drops the updates queued on its state.
Unmount ==
    /\ UNCHANGED <<events, now, host, tickLast, steps, fellBack, tableVars>>
    /\ interval' = clearInterval(interval)
    /\ queue' = <<>>
    /\ mounted
    /\ ops < MaxOps
    /\ ops' = ops + 1
    /\ mounted' = FALSE
    /\ load' = LoadCleanup(load, stale)[1]
    /\ stale' = LoadCleanup(load, stale)[2]
    /\ channels' = SubCleanupRun(channels, subInitRef, subCleanup)[1]
    /\ subInitRef' = SubCleanupRun(channels, subInitRef, subCleanup)[2]
    /\ subCleanup' = FALSE
    /\ notifs' = 0
    /\ burst' = <<>>
    /\ last' = Did("Unmount", value)
    /\ UNCHANGED <<store, storeOwn, value, ready, lastSavedStr, timer, saves,
                   fetches>>

Next ==
    \/ LoadServe
    \/ LoadFail
    \/ LoadComplete
    \/ LoadStale
    \/ \E v \in Docs : SetValue(v)
    \/ Rerender
    \/ TimerFire
    \/ SaveServe
    \/ SaveFail
    \/ SaveComplete
    \/ \E v \in Docs : RemoteWrite(v)
    \/ Notify
    \/ NotifyFail
    \/ FetchComplete
    \/ Unmount

Spec == Init /\ [][Next]_vars

\* The channel of a key whose callers also flush ("events": deleteEvent,
\* upsertEvent; "users": adminCreateUser).
NextFlush ==
    \/ Next
    \/ \E v \in Docs : Flush(v)
    \/ FlushComplete

SpecFlush == Init /\ [][NextFlush]_vars

\* The same channel when no request fails in transport.
NextReliable ==
    \/ LoadServe
    \/ LoadComplete
    \/ LoadStale
    \/ \E v \in Docs : SetValue(v)
    \/ Rerender
    \/ TimerFire
    \/ SaveServe
    \/ SaveComplete
    \/ \E v \in Docs : RemoteWrite(v)
    \/ Notify
    \/ FetchComplete
    \/ Unmount

SpecReliable == Init /\ [][NextReliable]_vars

\* Home renders again because of a state that is not this channel's: the
\* nowTick interval fires every 15 s for as long as Home is mounted, and
\* every state update of the other channel (its load continuation, its
\* absorptions) renders Home.  Unlike Rerender, not counted in ops.
RenderOther ==
    /\ UNCHANGED <<tickVars, fellBack>>
    /\ mounted
    /\ Render(FALSE, value, ready, load, lastSavedStr)
    /\ burst' = <<>>
    /\ last' = What("RenderOther", value,
                    Arms(FALSE, value, ready, lastSavedStr), FALSE, FALSE)
    /\ UNCHANGED <<store, storeOwn, value, ready, lastSavedStr, saves, fetches,
                   mounted, ops>>

NextLive ==
    \/ Next
    \/ RenderOther

\* Fair scheduling of the load fetch: the store answers every fetch, and the
\* continuation of every answered fetch runs.
SpecLive ==
    /\ Init
    /\ [][NextLive]_vars
    /\ WF_vars(LoadServe)
    /\ WF_vars(LoadComplete)
    /\ WF_vars(LoadStale)

\* ------------------------------------------------------- recurrence engine
\* Instants are minutes since 1970-01-01T00:00Z.  A date string 'YYYY-MM-DD'
\* is the number of its day counted from 1970-01-01; a time string 'HH:mm' is
\* its minute of the day, and the empty string is NoTime.  The host's
\* timezone is a fixed offset (no daylight saving change inside the window).
DayMin == 24 * 60

KST_OFFSET_MIN == 9 * 60

CAPACITY == 4

NoTime == -1

\* The day number of a civil date of the Gregorian calendar.
DaysFromCivil(y, m, d) ==
    LET yy  == IF m <= 2 THEN y - 1 ELSE y
        era == yy \div 400
        yoe == yy - era * 400
        mp  == (m + 9) % 12
        doy == (153 * mp + 2) \div 5 + d - 1
        doe == yoe * 365 + yoe \div 4 - yoe \div 100 + doy
    IN  era * 146097 + doe - 719468

\* new Date(`${dateStr}T${timeStr}:00`): the string is read as wall-clock of
\* the host.
ParseLocal(dateStr, minute, h) == dateStr * DayMin + minute - h

\* kstToUtcISO: the host-local reading of the string, minus nine hours.
kstToUtcISO(dateStr, timeStr, h) ==
    ParseLocal(dateStr, timeStr, h) - KST_OFFSET_MIN

\* add7KstSafe: host-local noon of the date, seven days later, and the UTC
\* date of that instant (toISOString().slice(0,10)).
add7KstSafe(dateStr, h) ==
    (ParseLocal(dateStr, 12 * 60, h) + 7 * DayMin) \div DayMin

\* todayStr: the host-local date of the clock.
todayStr(t, h) == (t + h) \div DayMin

\* addDays: calendar arithmetic on a host-local midnight.
addDays(iso, n) == iso + n

\* cmpDate: string comparison of two zero-padded dates.
cmpDate(a, b) == IF a = b THEN 0 ELSE IF a < b THEN -1 ELSE 1

\* The loop of makeId: `while (existing.some(x => x.id === id)) id++`.
RECURSIVE makeIdLoop(_, _)
makeIdLoop(existing, id) ==
    IF \E i \in 1..Len(existing) : existing[i].id = id
    THEN makeIdLoop(existing, id + 1)
    ELSE id

\* makeId without the loop: the clock reading as it is.
makeIdClock(existing, t) == t

\* makeId that starts its search one after the clock reading.
makeIdNext(existing, t) == makeIdLoop(existing, t + 1)

\* makeId: the clock reading, increased until no existing event has it.
\* Ids are clock readings in the unit of the model's clock.
makeId(existing, t) == makeIdLoop(existing, t)

\* The retention window of the prune effect, in minutes.
cutoffMs == 3 * DayMin

\* The filter of the prune effect.
Keeps(e, t, h) ==
    IF e.time # NoTime
    THEN kstToUtcISO(e.date, e.time, h) >= t - cutoffMs
    ELSE cmpDate(e.date, addDays(todayStr(t, h), -3)) >= 0

\* The updater of the prune effect.
prune(prev, t, h) == SelectSeq(prev, LAMBDA e : Keeps(e, t, h))

keyOf(e) == <<e.title, e.time, e.category>>

\* The keys of `groups` in insertion order.
RECURSIVE GroupKeys(_)
GroupKeys(list) ==
    IF list = <<>> THEN <<>>
    ELSE LET rest == GroupKeys(SubSeq(list, 1, Len(list) - 1))
             k == keyOf(list[Len(list)])
         IN  IF \E i \in 1..Len(rest) : rest[i] = k THEN rest
             ELSE Append(rest, k)

\* The members of group k that repeat weekly only.
GroupRepeating(list, k) ==
    {i \in 1..Len(list) : keyOf(list[i]) = k /\ list[i].repeatWeekly}

\* The positions in list of the members of group k.
Group(list, k) == {i \in 1..Len(list) : keyOf(list[i]) = k}

\* kstToUtcISO of an empty time parses 'YYYY-MM-DDT:00', an invalid date,
\* and toISOString of an invalid date throws RangeError.  The generate
\* updater calls it for the members of every group with a repeatWeekly
\* member.
generateThrows(list) ==
    \E i \in 1..Len(list) :
        /\ list[i].time = NoTime
        /\ \E x \in Group(list, keyOf(list[i])) : list[x].repeatWeekly

\* The member found by [...g].reverse().find(start <= now) after the stable
\* sort of g by date + time: the latest date that has started, and of equal
\* dates the member that comes last in the list.  0 when there is none.
recentlyPassed(list, g, t, h) ==
    LET passed == {i \in g : kstToUtcISO(list[i].date, list[i].time, h) <= t}
    IN  IF passed = {} THEN 0
        ELSE CHOOSE i \in passed :
                \A k \in passed :
                    \/ list[k].date < list[i].date
                    \/ list[k].date = list[i].date /\ k <= i

\* The occurrence the generate updater builds from its source.
newItem(src, acc, t, h) ==
    [src EXCEPT !.id = makeId(acc, t),
                !.date = add7KstSafe(src.date, h),
                !.cancelRequests = <<>>,
                !.notifiedToAll = FALSE,
                !.openForApplications = Len(src.participants) < CAPACITY,
                !.repeatWeekly = TRUE]

\* An `exists` that finds nothing.
existsNever(prev, g, rp, h) == FALSE

\* `exists`: a member of the group already has the next date and the
\* source's time.
exists(prev, g, rp, h) ==
    \E x \in g :
        /\ prev[x].date = add7KstSafe(prev[rp].date, h)
        /\ prev[x].time = prev[rp].time

\* One pass of the forEach over the groups: acc is `list` so far.
RECURSIVE GenerateFrom(_, _, _, _, _)
GenerateFrom(ks, acc, prev, t, h) ==
    IF ks = <<>> THEN acc
    ELSE LET g   == Group(prev, Head(ks))
             rp  == recentlyPassed(prev, g, t, h)
             add == /\ \E x \in g : prev[x].repeatWeekly
                    /\ rp # 0
                    /\ ~exists(prev, g, rp, h)
         IN  GenerateFrom(Tail(ks),
                          IF add THEN Append(acc, newItem(prev[rp], acc, t, h))
                          ELSE acc,
                          prev, t, h)

\* The updater of the generate effect (for a list on which it does not
\* throw).
generate(prev, t, h) == GenerateFrom(GroupKeys(prev), prev, prev, t, h)

\* One tick: the prune updater, then the generate updater.
tick(E, t, h) == generate(prune(E, t, h), t, h)

tickThrows(E, t, h) == generateThrows(prune(E, t, h))

\* ---- the collections, clocks and hosts explored
\* Stored collections have at most MaxEvents events.
MaxEvents == 2

Aug(d) == DaysFromCivil(2025, 8, d)

\* The instant at which the clocks of UTC+9 show the date and minute.
KstInstant(date, minute) == date * DayMin + minute - KST_OFFSET_MIN

Titles == {"A", "B"}
Dates == {Aug(2), Aug(6), Aug(9), Aug(16)}
Nows == {KstInstant(Aug(9), 10 * 60 - 1), KstInstant(Aug(9), 10 * 60),
         KstInstant(Aug(9), 10 * 60 + 1), KstInstant(Aug(16), 10 * 60 + 1)}
\* UTC, Asia/Seoul, America/New_York (standard time), Pacific/Tongatapu.
HostOffsets == {0, 9 * 60, -(5 * 60), 13 * 60}

\* Events of two series at 10:00, and events of an earlier version of the
\* page that have no time.
Shapes ==
    [title : Titles, date : Dates, time : {10 * 60}, repeatWeekly : BOOLEAN]
    \cup [title : {"A"}, date : {Aug(2), Aug(6)}, time : {NoTime},
          repeatWeekly : BOOLEAN]

\* The i-th event of a stored collection: ids are distinct, the event has
\* one participant, who asked to cancel, and was announced to everybody.
Stored(s, i) ==
    [id |-> i, title |-> s.title, date |-> s.date, time |-> s.time,
     category |-> "Sat", participants |-> <<i>>, cancelRequests |-> <<i>>,
     openForApplications |-> FALSE, notifiedToAll |-> TRUE,
     repeatWeekly |-> s.repeatWeekly]

Collections ==
    UNION {{[i \in 1..n |-> Stored(f[i], i)] : f \in [1..n -> Shapes]} :
           n \in 0..MaxEvents}

\* Home with its "events" channel READY, holding a stored collection.
InitTick ==
    /\ ChanInit
    /\ TableIdle
    /\ store = initial
    /\ events \in Collections
    /\ now \in Nows
    /\ host \in HostOffsets
    /\ tickLast = [act |-> "Init", before |-> <<>>]
    /\ steps = 0
    /\ interval = TRUE
    /\ queue = <<>>

\* The 15 s interval fires: the prune effect and the generate effect each
\* queue an updater, and the render applies both.
Tick ==
    /\ tickLast.act # "Crash"
    /\ ~tickThrows(events, now, host)
    /\ events' = tick(events, now, host)
    /\ tickLast' = [act |-> "Tick", before |-> events]
    /\ UNCHANGED <<now, host, steps, homeVars, fellBack, tableVars, chanVars>>

\* The same when the generate updater throws: the render fails and React
\* unmounts the tree.
TickCrash ==
    /\ tickLast.act # "Crash"
    /\ tickThrows(events, now, host)
    /\ tickLast' = [act |-> "Crash", before |-> events]
    /\ UNCHANGED <<events, now, host, steps, homeVars, fellBack, tableVars,
                   chanVars>>

\* Time passes.
Advance ==
    /\ tickLast.act # "Crash"
    /\ \E t \in Nows :
        /\ t > now
        /\ now' = t
    /\ tickLast' = [act |-> "Advance", before |-> events]
    /\ UNCHANGED <<events, host, steps, homeVars, fellBack, tableVars,
                   chanVars>>

NextTick ==
    \/ Tick
    \/ TickCrash
    \/ Advance

SpecTick == InitTick /\ [][NextTick]_vars

\* ------------------------------------------- operations on the collection
\* A participant { id, name, leader } is its user id, and a cancel request
\* { userId, name, reason } is its userId: the other fields are not read by
\* any operation.  Users are the four of initialUsers() and one who signed
\* up; user 1 is the administrator.
MaxSteps == 2

Users == 1..(CAPACITY + 1)

isAdmin(u) == u = 1

isIn(ev, uid) == \E i \in 1..Len(ev.participants) : ev.participants[i] = uid

hasCapacity(ev) == Len(ev.participants) < CAPACITY

\* list.filter(x => x !== uid)
Without(list, uid) == SelectSeq(list, LAMBDA x : x # uid)

\* joinEvent without the capacity test.
joinEventAnyway(prev, evId, u) ==
    LET f(e) ==
            IF e.id # evId \/ isIn(e, u) THEN e
            ELSE [e EXCEPT !.participants = Append(e.participants, u),
                           !.openForApplications =
                                Len(e.participants) + 1 < CAPACITY]
    IN  [i \in 1..Len(prev) |-> f(prev[i])]

\* The updater of joinEvent for currentUser u.
joinEvent(prev, evId, u) ==
    LET f(e) ==
            IF e.id # evId THEN e
            ELSE IF isIn(e, u) \/ ~hasCapacity(e) THEN e
            ELSE [e EXCEPT !.participants = Append(e.participants, u),
                           !.openForApplications =
                                Len(e.participants) + 1 < CAPACITY]
    IN  [i \in 1..Len(prev) |-> f(prev[i])]

\* applyForSlot that leaves openForApplications as it was.
applyForSlotKeepOpen(prev, evId, u) ==
    LET f(e) ==
            IF \/ e.id # evId
               \/ ~e.openForApplications
               \/ ~hasCapacity(e)
               \/ isIn(e, u)
            THEN e
            ELSE [e EXCEPT !.participants = Append(e.participants, u)]
    IN  [i \in 1..Len(prev) |-> f(prev[i])]

\* The updater of applyForSlot for currentUser u.
applyForSlot(prev, evId, u) ==
    LET f(e) ==
            IF \/ e.id # evId
               \/ ~e.openForApplications
               \/ ~hasCapacity(e)
               \/ isIn(e, u)
            THEN e
            ELSE [e EXCEPT !.participants = Append(e.participants, u),
                           !.openForApplications =
                                Len(e.participants) + 1 < CAPACITY]
    IN  [i \in 1..Len(prev) |-> f(prev[i])]

\* requestCancel without the test for a request already made.
requestCancelAgain(prev, evId, u) ==
    LET f(e) ==
            IF e.id # evId \/ ~isIn(e, u) THEN e
            ELSE [e EXCEPT !.cancelRequests = Append(e.cancelRequests, u)]
    IN  [i \in 1..Len(prev) |-> f(prev[i])]

\* The updater of requestCancel for currentUser u.
requestCancel(prev, evId, u) ==
    LET f(e) ==
            IF e.id # evId \/ ~isIn(e, u) THEN e
            ELSE IF \E i \in 1..Len(e.cancelRequests) : e.cancelRequests[i] = u
                 THEN e
            ELSE [e EXCEPT !.cancelRequests = Append(e.cancelRequests, u)]
    IN  [i \in 1..Len(prev) |-> f(prev[i])]

\* adminApproveCancel that leaves the cancel request in place.
adminApproveCancelKeep(prev, caller, evId, userId) ==
    LET f(e) ==
            IF e.id # evId THEN e
            ELSE [e EXCEPT !.participants = Without(e.participants, userId),
                           !.openForApplications = TRUE]
    IN  IF ~isAdmin(caller) THEN prev ELSE [i \in 1..Len(prev) |-> f(prev[i])]

\* adminApproveCancel called by currentUser `caller`.
adminApproveCancel(prev, caller, evId, userId) ==
    LET f(e) ==
            IF e.id # evId THEN e
            ELSE [e EXCEPT !.participants = Without(e.participants, userId),
                           !.cancelRequests = Without(e.cancelRequests, userId),
                           !.openForApplications = TRUE]
    IN  IF ~isAdmin(caller) THEN prev ELSE [i \in 1..Len(prev) |-> f(prev[i])]

\* adminRemoveParticipant called by currentUser `caller`.
adminRemoveParticipant(prev, caller, evId, userId) ==
    LET f(e) ==
            IF e.id # evId THEN e
            ELSE [e EXCEPT !.participants = Without(e.participants, userId),
                           !.cancelRequests = Without(e.cancelRequests, userId),
                           !.openForApplications = TRUE]
    IN  IF ~isAdmin(caller) THEN prev ELSE [i \in 1..Len(prev) |-> f(prev[i])]

\* notifyAllForOpenSlot called by currentUser `caller`.
notifyAllForOpenSlot(prev, caller, evId) ==
    LET f(e) ==
            IF e.id = evId
            THEN [e EXCEPT !.notifiedToAll = TRUE, !.openForApplications = TRUE]
            ELSE e
    IN  IF ~isAdmin(caller) THEN prev ELSE [i \in 1..Len(prev) |-> f(prev[i])]

\* deleteEvent called by currentUser `caller` (the confirm dialog accepted).
deleteEvent(prev, caller, evId) ==
    IF ~isAdmin(caller) THEN prev
    ELSE SelectSeq(prev, LAMBDA e : e.id # evId)

\* The form of the create tab: title, date, time, category, repeatWeekly
\* and the selected user ids (the leader is one of them).
Forms ==
    [title : Titles, date : {Aug(9)}, time : {10 * 60}, category : {"Sat"},
     repeatWeekly : BOOLEAN,
     selectedUserIds :
        {[i \in 1..k |-> i] : k \in {0, 2, CAPACITY, CAPACITY + 1}}]

\* The tests of upsertEvent before it changes anything.
upsertRejects(caller, form) ==
    \/ ~isAdmin(caller)
    \/ Len(form.selectedUserIds) = 0
    \/ Len(form.selectedUserIds) > CAPACITY

\* upsertEvent with editingId set, called by currentUser `caller`.
upsertEdit(prev, caller, editingId, form) ==
    LET f(e) ==
            IF e.id = editingId
            THEN [e EXCEPT !.title = form.title, !.date = form.date,
                           !.time = form.time, !.category = form.category,
                           !.participants = form.selectedUserIds,
                           !.repeatWeekly = form.repeatWeekly]
            ELSE e
    IN  IF upsertRejects(caller, form) THEN prev
        ELSE [i \in 1..Len(prev) |-> f(prev[i])]

\* upsertEvent with no editingId, called by currentUser `caller` at clock t.
upsertCreate(prev, caller, form, t) ==
    LET newEvent ==
            [id |-> makeId(prev, t), title |-> form.title,
             date |-> form.date, time |-> form.time,
             category |-> form.category,
             participants |-> form.selectedUserIds,
             cancelRequests |-> <<>>,
             openForApplications |-> Len(form.selectedUserIds) < CAPACITY,
             notifiedToAll |-> FALSE,
             repeatWeekly |-> form.repeatWeekly]
    IN  IF upsertRejects(caller, form) THEN prev ELSE <<newEvent>> \o prev

\* The ids of the events on the screen.
Ids == {events[k].id : k \in 1..Len(events)}

\* The administrator and a member.
Callers == {1, 2}

\* A setEvents(updater) of an action of Home, and the render.
Op(act, next, evId, caller, userId) ==
    /\ steps < MaxSteps
    /\ steps' = steps + 1
    /\ events' = next
    /\ tickLast' = [act |-> act, before |-> events, ev |-> evId,
                    caller |-> caller, user |-> userId]
    /\ UNCHANGED <<now, host, homeVars, fellBack, tableVars, chanVars>>

JoinEvent ==
    \E u \in Users, id \in Ids :
        Op("joinEvent", joinEvent(events, id, u), id, u, u)

ApplyForSlot ==
    \E u \in Users, id \in Ids :
        Op("applyForSlot", applyForSlot(events, id, u), id, u, u)

RequestCancel ==
    \E u \in Users, id \in Ids :
        Op("requestCancel", requestCancel(events, id, u), id, u, u)

AdminApproveCancel ==
    \E c \in Callers, u \in Users, id \in Ids :
        Op("adminApproveCancel", adminApproveCancel(events, c, id, u),
           id, c, u)

AdminRemoveParticipant ==
    \E c \in {1}, u \in Users, id \in Ids :
        Op("adminRemoveParticipant", adminRemoveParticipant(events, c, id, u),
           id, c, u)

NotifyAllForOpenSlot ==
    \E c \in {1}, id \in Ids :
        Op("notifyAllForOpenSlot", notifyAllForOpenSlot(events, c, id),
           id, c, c)

DeleteEvent ==
    \E c \in {1}, id \in Ids :
        Op("deleteEvent", deleteEvent(events, c, id), id, c, c)

\* upsertEvent on the form of an event being edited.
EditEvent ==
    \E c \in {1}, id \in Ids, form \in Forms :
        Op("upsertEdit", upsertEdit(events, c, id, form), id, c, c)

\* upsertEvent on a new form; stored collections stay within MaxEvents.
CreateEvent ==
    \E c \in {1}, form \in Forms :
        /\ Len(events) < MaxEvents
        /\ Op("upsertCreate", upsertCreate(events, c, form, now),
              makeId(events, now), c, c)

\* An event created earlier in the minute of the clock: three participants,
\* one of whom asked to cancel.
Seed(t) ==
    [id |-> t, title |-> "A", date |-> Aug(9), time |-> 10 * 60,
     category |-> "Sat", participants |-> <<1, 2, 3>>,
     cancelRequests |-> <<3>>, openForApplications |-> TRUE,
     notifiedToAll |-> FALSE, repeatWeekly |-> TRUE]

\* Home with its "events" channel READY on an empty collection or on one
\* event, in a browser in Asia/Seoul on 2025-08-09 at 10:01.
InitOps ==
    /\ ChanInit
    /\ TableIdle
    /\ store = initial
    /\ events \in {<<>>, <<Seed(KstInstant(Aug(9), 10 * 60 + 1))>>}
    /\ now = KstInstant(Aug(9), 10 * 60 + 1)
    /\ host = KST_OFFSET_MIN
    /\ tickLast = [act |-> "Init", before |-> <<>>]
    /\ steps = 0
    /\ interval = TRUE
    /\ queue = <<>>

NextOps ==
    \/ JoinEvent
    \/ ApplyForSlot
    \/ RequestCancel
    \/ AdminApproveCancel
    \/ AdminRemoveParticipant
    \/ NotifyAllForOpenSlot
    \/ DeleteEvent
    \/ EditEvent
    \/ CreateEvent
    \/ Tick

SpecOps == InitOps /\ [][NextOps]_vars

\* ------------------------------------------------- civil dates and times
\* A civil date is the record of the year, month and day its string
\* 'YYYY-MM-DD' shows.
Days(c) == DaysFromCivil(c.y, c.m, c.d)

\* getFullYear / getMonth + 1 / getDate of the day with this number.
CivilFromDays(n) ==
    LET z   == n + 719468
        era == z \div 146097
        doe == z - era * 146097
        yoe == (doe - doe \div 1460 + doe \div 36524 - doe \div 146096)
                   \div 365
        doy == doe - (365 * yoe + yoe \div 4 - yoe \div 100)
        mp  == (5 * doy + 2) \div 153
        d   == doy - (153 * mp + 2) \div 5 + 1
        m   == IF mp < 10 THEN mp + 3 ELSE mp - 9
        y   == yoe + era * 400 + (IF m <= 2 THEN 1 ELSE 0)
    IN  [y |-> y, m |-> m, d |-> d]

\* utcISOToKst that reads the fields of the shifted instant in UTC.
utcISOToKstUTC(iso, h) ==
    LET k == iso + KST_OFFSET_MIN
    IN  [date |-> CivilFromDays(k \div DayMin), time |-> k % DayMin]

\* utcISOToKst: the instant plus nine hours, and the fields of that instant
\* on the clocks of the host.
utcISOToKst(iso, h) ==
    LET k == iso + KST_OFFSET_MIN + h
    IN  [date |-> CivilFromDays(k \div DayMin), time |-> k % DayMin]

\* Dates before the end of a month, of February in a leap year and in a
\* common year, and of a year; minutes at both ends of the day and on both
\* sides of 09:00.
CivilDates ==
    {[y |-> 2025, m |-> 8, d |-> 9], [y |-> 2025, m |-> 8, d |-> 25],
     [y |-> 2024, m |-> 2, d |-> 23], [y |-> 2025, m |-> 2, d |-> 22],
     [y |-> 2025, m |-> 12, d |-> 28], [y |-> 2025, m |-> 12, d |-> 31],
     [y |-> 2025, m |-> 1, d |-> 1]}

CivilMinutes == {0, 8 * 60 + 59, 9 * 60, 10 * 60, 23 * 60 + 59}

\* The hosts of the recurrence engine, Etc/GMT+12 and Pacific/Kiritimati.
CivilHosts == HostOffsets \cup {-(12 * 60), 14 * 60}

InitCivil ==
    /\ ChanInit
    /\ TableIdle
    /\ store = initial
    /\ events = <<>>
    /\ now = KstInstant(Aug(9), 10 * 60)
    /\ host \in CivilHosts
    /\ tickLast = [act |-> "Init", before |-> <<>>]
    /\ steps = 0
    /\ interval = TRUE
    /\ queue = <<>>

\* A date and time go to the instant and back.
RoundTrip ==
    /\ \E c \in CivilDates, t \in CivilMinutes :
        tickLast' = [act |-> "utcISOToKst", before |-> <<>>,
                     date |-> c, time |-> t,
                     iso |-> kstToUtcISO(Days(c), t, host),
                     back |-> utcISOToKst(kstToUtcISO(Days(c), t, host),
                                          host)]
    /\ UNCHANGED <<events, now, host, steps, homeVars, fellBack, tableVars,
                   chanVars>>

\* The date of the next occurrence of a date.
Add7 ==
    /\ \E c \in CivilDates :
        tickLast' = [act |-> "add7KstSafe", before |-> <<>>, date |-> c,
                     next |-> CivilFromDays(add7KstSafe(Days(c), host))]
    /\ UNCHANGED <<events, now, host, steps, homeVars, fellBack, tableVars,
                   chanVars>>

NextCivil ==
    \/ RoundTrip
    \/ Add7

SpecCivil == InitCivil /\ [][NextCivil]_vars

\* ------------------------------------------------------------- the feed
\* (a.date + a.time).localeCompare(b.date + b.time) < 0 or = 0: the dates
\* have one width, and the empty time is a prefix of every time.
notAfter(a, b) == a.date < b.date \/ (a.date = b.date /\ a.time <= b.time)

\* Array.prototype.sort with that comparison: stable.
RECURSIVE sortByDateTime(_)
sortByDateTime(list) ==
    IF list = <<>> THEN <<>>
    ELSE LET rest == sortByDateTime(SubSeq(list, 1, Len(list) - 1))
             e    == list[Len(list)]
         IN  SelectSeq(rest, LAMBDA x : notAfter(x, e)) \o <<e>>
                \o SelectSeq(rest, LAMBDA x : ~notAfter(x, e))

\* The members of a sorted group that feedByCategory shows: `reached`, then
\* the first of `future`.
shownOf(g, t, h) ==
    LET isReached(e) ==
            e.time = NoTime \/ kstToUtcISO(e.date, e.time, h) <= t
        reached == SelectSeq(g, isReached)
        future  == SelectSeq(g, LAMBDA e : ~isReached(e))
    IN  reached \o (IF future = <<>> THEN <<>> ELSE <<future[1]>>)

\* The loop over Object.values(groups): the buckets after the groups ks.
RECURSIVE FeedFrom(_, _, _, _, _)
FeedFrom(ks, map, E, t, h) ==
    IF ks = <<>> THEN map
    ELSE LET g == sortByDateTime(SelectSeq(E, LAMBDA e : keyOf(e) = Head(ks)))
             shown == shownOf(g, t, h)
         IN  FeedFrom(Tail(ks),
                      [c \in DOMAIN map |->
                          map[c] \o SelectSeq(shown,
                                              LAMBDA e : e.category = c)],
                      E, t, h)

\* Two of the seven CATEGORIES.
Categories == {"Sat", "Sun"}

\* feedByCategory of a READY events channel.
feedByCategory(E, t, h) ==
    LET map == FeedFrom(GroupKeys(E), [c \in Categories |-> <<>>], E, t, h)
    IN  [c \in Categories |-> sortByDateTime(map[c])]

FeedShapes ==
    [title : Titles, date : {Aug(6), Aug(9), Aug(16)},
     time : {10 * 60, NoTime}, category : Categories]

\* The i-th event of a collection shown in the feed: one participant, no
\* cancel request, not repeating.
FeedStored(s, i) ==
    [id |-> i, title |-> s.title, date |-> s.date, time |-> s.time,
     category |-> s.category, participants |-> <<i>>, cancelRequests |-> <<>>,
     openForApplications |-> TRUE, notifiedToAll |-> FALSE,
     repeatWeekly |-> FALSE]

FeedCollections ==
    UNION {{[i \in 1..n |-> FeedStored(f[i], i)] : f \in [1..n -> FeedShapes]} :
           n \in 0..MaxEvents}

\* Home with its "events" channel READY, showing the feed.
InitFeed ==
    /\ ChanInit
    /\ TableIdle
    /\ store = initial
    /\ events \in FeedCollections
    /\ now \in Nows
    /\ host \in HostOffsets
    /\ tickLast = [act |-> "Init", before |-> <<>>]
    /\ steps = 0
    /\ interval = TRUE
    /\ queue = <<>>

NextFeed ==
    \/ Tick
    \/ Advance

SpecFeed == InitFeed /\ [][NextFeed]_vars

\* ------------------------------------------- the interval and the queue
\* A call setEvents(updater) queues the updater on the state; the next
\* render applies the queued updaters in order, each to the result of the
\* one before, and installs the last result.  The prune effect computes its
\* cutoff when the effect runs (t); the generate updater reads the clock
\* when it is applied.  An updater is the record of its kind and what its
\* closure holds.
Updater(kind, t, val, ev, u) ==
    [kind |-> kind, t |-> t, val |-> val, ev |-> ev, u |-> u]

applyUpdater(f, prev, t, h) ==
    CASE f.kind = "prune" -> prune(prev, f.t, h)
      [] f.kind = "generate" -> generate(prev, t, h)
      [] f.kind = "set" -> f.val
      [] f.kind = "join" -> joinEvent(prev, f.ev, f.u)

\* A render that gives every updater the value of the last render and
\* installs the result of the last one.
ApplyAllStale(q, prev, t, h) ==
    IF q = <<>> THEN prev ELSE applyUpdater(q[Len(q)], prev, t, h)

\* The value a render installs.
RECURSIVE ApplyAll(_, _, _, _)
ApplyAll(q, prev, t, h) ==
    IF q = <<>> THEN prev
    ELSE ApplyAll(Tail(q), applyUpdater(Head(q), prev, t, h), t, h)

\* Collections of events that have a time: no updater throws on them.
Timed ==
    {c \in Collections : Len(c) <= 1 /\ \A i \in 1..Len(c) : c[i].time # NoTime}

\* What other clients store.
Remote == {c \in Timed : \A i \in 1..Len(c) : c[i].title = "B"}

InitInterval ==
    /\ ChanInit
    /\ TableIdle
    /\ store = initial
    /\ events \in Timed
    /\ now \in Nows
    /\ host = 0
    /\ tickLast = [act |-> "Init", before |-> <<>>, queue |-> <<>>]
    /\ steps = 0
    /\ interval = TRUE
    /\ queue = <<>>

Queued(act, q) ==
    /\ steps < MaxSteps
    /\ steps' = steps + 1
    /\ queue' = q
    /\ tickLast' = [act |-> act, before |-> events, queue |-> queue]
    /\ UNCHANGED <<events, now, host, interval, fellBack, tableVars, chanVars>>

\* The interval fires: setNowTick(Date.now()), the render, and the prune
\* and generate effects of that render, which queue one updater each.  On
\* an unmounted component setNowTick does nothing.
IntervalFire ==
    /\ interval
    /\ Queued("IntervalFire",
              IF mounted
              THEN queue \o <<Updater("prune", now, <<>>, 0, 0),
                              Updater("generate", 0, <<>>, 0, 0)>>
              ELSE queue)

\* The notification handler absorbs the value another client stored.
AbsorbEvents ==
    /\ mounted
    /\ \E v \in Remote :
        Queued("AbsorbEvents", Append(queue, Updater("set", 0, v, 0, 0)))

\* The user presses the join button of an event.
JoinClick ==
    /\ mounted
    /\ \E k \in 1..Len(events) :
        Queued("JoinClick",
               Append(queue, Updater("join", 0, <<>>, events[k].id, 2)))

\* React renders Home with the queued updaters applied.
RenderEvents ==
    /\ mounted
    /\ queue # <<>>
    /\ events' = ApplyAll(queue, events, now, host)
    /\ queue' = <<>>
    /\ tickLast' = [act |-> "RenderEvents", before |-> events, queue |-> queue]
    /\ UNCHANGED <<now, host, steps, interval, fellBack, tableVars, chanVars>>

NextInterval ==
    \/ IntervalFire
    \/ AbsorbEvents
    \/ JoinClick
    \/ RenderEvents
    \/ Advance
    \/ Unmount

SpecInterval == InitInterval /\ [][NextInterval]_vars

\* ------------------------------------------------ the table-backed page
\* The page of lines 1-706 keeps the participants of an event as rows of
\* the table `participants` and open_for_applications as a column of the
\* table `events`.  Every client holds the result of its last loadAll in
\* its `events` state; joinEvent and applyForSlot check that snapshot and
\* then send an insert and an update, each of which the store applies on
\* its own.  One event is modelled, and every client joins at most once.
InitTable ==
    /\ ChanInit
    /\ events = <<>>
    /\ now = 0
    /\ host = 0
    /\ tickLast = [act |-> "Init", before |-> <<>>]
    /\ steps = 0
    /\ interval = TRUE
    /\ queue = <<>>
    /\ partRows \in {{1}, {1, 2}, {1, 2, 3}}
    /\ openForApps = (Cardinality(partRows) < CAPACITY)
    /\ snapshot = [c \in Clients |->
                      [participants |-> partRows, open |-> openForApps]]
    /\ pc = [c \in Clients |-> Idle]

TableStep ==
    UNCHANGED <<events, now, host, tickLast, steps, homeVars, fellBack,
                chanVars>>

\* loadAll after a change notification: the client's events state becomes
\* what the tables hold.
LoadAll(c) ==
    /\ snapshot' = [snapshot EXCEPT ![c] = [participants |-> partRows,
                                            open |-> openForApps]]
    /\ UNCHANGED <<partRows, openForApps, pc>>
    /\ TableStep

\* joinEvent or applyForSlot up to its first await: the checks on the
\* snapshot that both make, and the insert is sent.  The update will carry
\* ev.participants.length + 1.
Begin(c, op) ==
    /\ pc[c] = Idle
    /\ c \notin snapshot[c].participants
    /\ Cardinality(snapshot[c].participants) < CAPACITY
    /\ pc' = [pc EXCEPT ![c] =
                [at |-> "insert", op |-> op,
                 n |-> Cardinality(snapshot[c].participants)]]
    /\ UNCHANGED <<partRows, openForApps, snapshot>>
    /\ TableStep

TableJoin(c) == Begin(c, "joinEvent")

\* applyForSlot also wants the snapshot to show the event open for
\* applications.
TableApply(c) ==
    /\ snapshot[c].open
    /\ Begin(c, "applyForSlot")

\* The store inserts the row, and the client sends the update.
InsertServe(c) ==
    /\ pc[c].at = "insert"
    /\ partRows' = partRows \cup {c}
    /\ pc' = [pc EXCEPT ![c].at = "update"]
    /\ UNCHANGED <<openForApps, snapshot>>
    /\ TableStep

\* The store applies the update of open_for_applications.
UpdateServe(c) ==
    /\ pc[c].at = "update"
    /\ openForApps' = (pc[c].n + 1 < CAPACITY)
    /\ pc' = [pc EXCEPT ![c].at = "done"]
    /\ UNCHANGED <<partRows, snapshot>>
    /\ TableStep

NextTable ==
    \E c \in Clients :
        \/ LoadAll(c)
        \/ TableJoin(c)
        \/ TableApply(c)
        \/ InsertServe(c)
        \/ UpdateServe(c)

SpecTable == InitTable /\ [][NextTable]_vars

\* ---------------------------------------------------------------- claims
Last(q) == q[Len(q)]

\* C1: the debounced write dispatched at the end of a window in which the
\* channel, READY and with no timeout pending before, saw only setValue
\* calls carries the value of the last call, and no write is dispatched
\* when that value serializes equal to lastSynced.
C1_Coalescing ==
    [][(last'.act = "TimerFire" /\ burst # <<>>)
        => (last'.val = Last(burst) /\ j(Last(burst)) # lastSavedStr)]_vars

\* A re-fetch completes in this step.
Fetched == last'.act \in {"Absorb", "Echo"}
\* What the handler takes the response for.
Latest == kvLoad(last'.val, initial)

\* C2: when the re-fetched text differs from lastSynced, the step sets
\* lastSynced to it, replaces the in-memory value, calls no setTimeout and
\* dispatches no write.
C2_AbsorbNoWrite ==
    [][(Fetched /\ j(Latest) # lastSavedStr)
        => /\ lastSavedStr' = j(Latest)
           /\ mounted => value' = Latest
           /\ ~last'.armed
           /\ timer' = timer
           /\ saves' = saves]_vars
C2_Witness ==
    /\ last.act = "Absorb"
    /\ mounted
    /\ value = last.val
    /\ ~last.own

\* C3: when the re-fetched text equals lastSynced at the time the fetch
\* completes, the in-memory value and lastSynced stay as they are.
C3_EchoSuppression ==
    [][(Fetched /\ j(Latest) = lastSavedStr)
        => (value' = value /\ lastSavedStr' = lastSavedStr)]_vars
C3_Witness ==
    /\ last.act = "Echo"
    /\ last.own
    /\ mounted

\* C4: the notification of the channel's own write of B, handled while that
\* save is in flight and right after the user set another value, does not
\* replace the in-memory value.
C4_OwnEchoIgnored ==
    [][(/\ Fetched
        /\ last'.own
        /\ last.act = "SetValue"
        /\ \E s \in Elems(saves) : s.cur = last'.val)
        => value' = value]_vars

\* C5 as claimed: no debounced write is dispatched for a value whose text
\* equals lastSynced.
C5_NoOpSuppression ==
    ~(last.act = "TimerFire" /\ j(last.val) = lastSavedStr)
\* C5 as amended: setTimeout is called only for a value whose text differs
\* from lastSynced when scheduleSave runs; a setValue, load or absorption
\* that leaves the value with the text of lastSynced calls no setTimeout.
C5_NoOpAtSchedule ==
    /\ last.armed => (timer = value /\ j(timer) # lastSavedStr)
    /\ (last.act \in {"SetValue", "Absorb", "LoadComplete"}
            /\ j(value) = lastSavedStr)
        => ~last.armed
C5_Witness ==
    /\ last.act = "SetValue"
    /\ ready
    /\ j(value) = lastSavedStr
    /\ timer = NoTimer

\* C6: after the unmount, the completion of a load, save or re-fetch that
\* was in flight changes neither the value, nor lastSynced, nor ready.
C6_StaleGuard ==
    [][(/\ ~mounted
        /\ last'.act \in {"LoadStale", "SaveComplete", "Absorb", "Echo"}
        /\ ~last'.late)
        => (value' = value /\ lastSavedStr' = lastSavedStr /\ ready' = ready)]_vars

\* C7: no timeout fires, and so no write is dispatched, after the unmount.
C7_TeardownCancels ==
    ~(last.act = "TimerFire" /\ ~mounted)

\* C8: no subscription before READY, exactly one from READY to the unmount,
\* none after it.
C8_OneSubscription ==
    channels = (IF mounted /\ ready THEN 1 ELSE 0)
C8_Witness ==
    /\ last.act = "Rerender"
    /\ ready
    /\ channels = 1

\* C9: once READY, no fetch of the load effect is in flight.
C9_LoadOnce ==
    ready => load = NoLoad

\* C10: a load that failed, found no payload or found a malformed one leaves
\* the default as the value, READY, and lastSynced the text of the default.
C10_LoadFallback ==
    (last.act = "LoadComplete" /\ last.val \in {Err, Absent, Malformed})
        => (value = initial /\ ready /\ lastSavedStr = j(initial))

\* C11: the continuation of a save that failed leaves the in-memory value,
\* the pending timeout and the saves in flight as they are (no rollback, no
\* retry); and setTimeout is called only in the render of a local setValue
\* (debounced or flushed), so every later write comes from a setValue.
C11_SaveFailure ==
    [][/\ (last'.act = "SaveComplete" /\ last'.res = Err)
            => /\ value' = value
               /\ timer' = timer
               /\ ~last'.armed
               /\ \A s \in Elems(saves') : s \in Elems(saves)
       /\ last'.armed => last'.act \in {"SetValue", "Flush"}]_vars
C11_Witness ==
    /\ last.act = "SaveComplete"
    /\ last.res = Err
    /\ mounted
    /\ value = last.val
    /\ store # value

\* C12: when the write of an immediate flush of a READY channel completes
\* without error, lastSynced is the text of the flushed value.
C12_FlushUpdatesLastSynced ==
    (last.act = "FlushComplete" /\ last.res = Ok /\ ready)
        => lastSavedStr = j(last.val)

\* C13: right after an immediate flush, a debounced write that is pending
\* carries the flushed value, which is the in-memory value: no write of an
\* older value is dispatched after the flush.
C13_FlushRace ==
    last.act = "Flush" => timer \in {NoTimer, value}

\* No timeout is pending, no write and no re-fetch is in flight and every
\* notification was delivered and processed.
Quiescent ==
    /\ timer = NoTimer
    /\ saves = EmptyBag
    /\ fetches = EmptyBag
    /\ notifs = 0

C15_NoFeedbackLoop ==
    [][/\ last'.armed => last'.act \in {"SetValue", "Flush"}
       /\ BagCardinality(saves') > BagCardinality(saves)
            => last'.act \in {"TimerFire", "Flush"}
       /\ last'.act = "TimerFire"
            => /\ timer' = NoTimer
               /\ BagCardinality(saves') = BagCardinality(saves) + 1
       /\ last'.act \in {"Notify", "NotifyFail", "Absorb", "Echo"}
            => timer' = timer /\ saves' = saves]_vars

\* The client wrote, was notified of its own write, re-fetched and ignored
\* the echo; nothing is left in flight.
C15_Witness ==
    /\ last.act = "Echo"
    /\ last.own
    /\ mounted
    /\ Quiescent

\* C16: under fair scheduling of the fetch completions, a channel that stays
\* mounted eventually is READY.
C16_EventuallyReady ==
    <>(ready \/ ~mounted)

Unique(E) ==
    \A a, b \in 1..Len(E) :
        (a # b /\ keyOf(E[a]) = keyOf(E[b])) => E[a].date # E[b].date

\* The event with this id is in E.
Has(E, id) == \E k \in 1..Len(E) : E[k].id = id

\* C18 as stated: in the output of a tick, whatever its input, no two
\* members of a series have the same (date, time).
C18_SeriesUnique ==
    tickLast.act = "Tick" => Unique(events)

\* C18 amended: a tick adds no member at a (date, time) its series already
\* has; when no two members of a series share it in the input, none do in
\* the output.
C18_UniquePreserved ==
    (~tickThrows(events, now, host) /\ Unique(events))
        => Unique(tick(events, now, host))

\* A tick of a collection without duplicates generated an occurrence.
C18_Witness ==
    /\ tickLast.act = "Tick"
    /\ Unique(tickLast.before)
    /\ Unique(events)
    /\ \E k \in 1..Len(events) : ~Has(tickLast.before, events[k].id)

\* The instant an event starts: its date and time on the clocks of UTC+9,
\* or the beginning of its date when it has no time.
start(e) == KstInstant(e.date, IF e.time = NoTime THEN 0 ELSE e.time)

\* Not older than the retention window, or not started.
InWindow(e, t) == t - start(e) <= cutoffMs \/ start(e) > t

\* C19: every event in the output of a tick is inside the retention window
\* or has not started, and the tick removes no such event.
C19_PruningBound ==
    tickLast.act = "Tick"
        => /\ \A k \in 1..Len(events) : InWindow(events[k], now)
           /\ \A i \in 1..Len(tickLast.before) :
                InWindow(tickLast.before[i], now)
                    => Has(events, tickLast.before[i].id)

\* The collection of Scenario A: two members of one series at 10:00, both
\* repeating weekly, dated 2025-08-02 and 2025-08-09.
ScenarioA(E) ==
    /\ Len(E) = 2
    /\ keyOf(E[1]) = keyOf(E[2])
    /\ E[1].time = 10 * 60
    /\ E[1].repeatWeekly /\ E[2].repeatWeekly
    /\ {E[1].date, E[2].date} = {Aug(2), Aug(9)}

\* C20: the tick of Scenario A at 2025-08-09 10:01 (UTC+9) leaves the member
\* of 2025-08-09 and one occurrence of 2025-08-16 cloned from it.
C20_ScenarioA ==
    (/\ tickLast.act = "Tick"
     /\ ScenarioA(tickLast.before)
     /\ now = KstInstant(Aug(9), 10 * 60 + 1))
        => /\ Len(events) = 2
           /\ events[1].date = Aug(9)
           /\ Has(tickLast.before, events[1].id)
           /\ events[2] = [events[1] EXCEPT !.id = now,
                                            !.date = Aug(16),
                                            !.cancelRequests = <<>>,
                                            !.notifiedToAll = FALSE,
                                            !.openForApplications = TRUE]

\* What the generate updater of the last tick was applied to, and the
\* positions of the occurrences it appended.
GenInput == prune(tickLast.before, now, host)
Generated == {k \in 1..Len(events) : k > Len(GenInput)}

\* C21: a tick adds at most one occurrence per series; it adds one only to
\* a series with a repeatWeekly member, and its source is the member with
\* the greatest start that is not after now (so a series whose members all
\* start after now gets none).
C21_SourceSelection ==
    tickLast.act = "Tick"
        => \A m \in 1..Len(GenInput) :
            LET g == Group(GenInput, keyOf(GenInput[m]))
                started == {i \in g : start(GenInput[i]) <= now}
                new == {k \in Generated : keyOf(events[k]) = keyOf(GenInput[m])}
            IN  /\ Cardinality(new) <= 1
                /\ new # {}
                    => /\ \E x \in g : GenInput[x].repeatWeekly
                       /\ \E i \in started :
                            /\ \A o \in started :
                                 start(GenInput[o]) <= start(GenInput[i])
                            /\ \A k \in new :
                                 events[k].participants
                                    = GenInput[i].participants

\* C22: every occurrence a tick generates is a copy of a member m of its
\* series (title, time, category, participants, repeatWeekly) dated seven
\* days after m, with an id no other event has, no cancel request,
\* notifiedToAll false and openForApplications = (participants < CAPACITY).
C22_OccurrenceFields ==
    tickLast.act = "Tick"
        => \A k \in Generated :
            /\ \E i \in 1..Len(GenInput) :
                 events[k] =
                    [GenInput[i] EXCEPT
                        !.id = events[k].id,
                        !.date = @ + 7,
                        !.cancelRequests = <<>>,
                        !.notifiedToAll = FALSE,
                        !.openForApplications =
                            Len(GenInput[i].participants) < CAPACITY]
            /\ \A o \in 1..Len(events) :
                 o # k => events[o].id # events[k].id

\* No value occurs twice in the list.
NoDup(list) ==
    \A a, b \in 1..Len(list) : a # b => list[a] # list[b]

\* The event of E with this id.
EventOf(E, id) == E[CHOOSE k \in 1..Len(E) : E[k].id = id]

\* C23: every event has at most CAPACITY participants and no user twice
\* among them, after any sequence of operations and ticks.
C23_Capacity ==
    \A k \in 1..Len(events) :
        /\ Len(events[k].participants) <= CAPACITY
        /\ NoDup(events[k].participants)

\* A user who is not in a full event tried to join it.
C23_Witness ==
    /\ tickLast.act = "joinEvent"
    /\ Len(EventOf(tickLast.before, tickLast.ev).participants) = CAPACITY
    /\ ~isIn(EventOf(tickLast.before, tickLast.ev), tickLast.user)

\* C24: a joinEvent or applyForSlot on an event that is full or already
\* has the user changes nothing; one that changes the collection appends
\* the user to that event and sets its openForApplications to (number of
\* participants < CAPACITY).
C24_JoinRejection ==
    tickLast.act \in {"joinEvent", "applyForSlot"}
        => LET e0 == EventOf(tickLast.before, tickLast.ev)
               e1 == EventOf(events, tickLast.ev)
           IN  /\ (~hasCapacity(e0) \/ isIn(e0, tickLast.user))
                    => events = tickLast.before
               /\ events # tickLast.before
                    => /\ e1.participants
                            = Append(e0.participants, tickLast.user)
                       /\ e1.openForApplications
                            = (Len(e1.participants) < CAPACITY)

\* The fourth participant applied for the open slot and got it.
C24_Witness ==
    /\ tickLast.act = "applyForSlot"
    /\ events # tickLast.before
    /\ Len(EventOf(events, tickLast.ev).participants) = CAPACITY
    /\ ~EventOf(events, tickLast.ev).openForApplications

\* C25: no event holds two cancel requests of one user, and requestCancel
\* by a user who has one on that event, or who is not a participant of it,
\* changes nothing.
C25_CancelUnique ==
    /\ \A k \in 1..Len(events) : NoDup(events[k].cancelRequests)
    /\ tickLast.act = "requestCancel"
        => LET e0 == EventOf(tickLast.before, tickLast.ev)
           IN  (\/ ~isIn(e0, tickLast.user)
                \/ \E i \in 1..Len(e0.cancelRequests) :
                      e0.cancelRequests[i] = tickLast.user)
                    => events = tickLast.before

\* A participant who had asked to cancel asked again.
C25_Witness ==
    /\ tickLast.act = "requestCancel"
    /\ isIn(EventOf(tickLast.before, tickLast.ev), tickLast.user)
    /\ \E i \in 1..Len(EventOf(tickLast.before, tickLast.ev).cancelRequests) :
          EventOf(tickLast.before, tickLast.ev).cancelRequests[i]
            = tickLast.user

\* C26: adminApproveCancel by an administrator removes the user from the
\* event's participants and cancel requests, opens the event, and changes
\* no other field and no other event; by another caller it changes nothing.
C26_ApproveFrame ==
    tickLast.act = "adminApproveCancel"
        => IF ~isAdmin(tickLast.caller) THEN events = tickLast.before
           ELSE /\ Len(events) = Len(tickLast.before)
                /\ \A k \in 1..Len(events) :
                    LET e0 == tickLast.before[k]
                    IN  IF e0.id # tickLast.ev THEN events[k] = e0
                        ELSE events[k] =
                            [e0 EXCEPT
                                !.participants =
                                    Without(e0.participants, tickLast.user),
                                !.cancelRequests =
                                    Without(e0.cancelRequests, tickLast.user),
                                !.openForApplications = TRUE]

\* The administrator approved the request of a participant of one of two
\* events.
C26_Witness ==
    /\ tickLast.act = "adminApproveCancel"
    /\ isAdmin(tickLast.caller)
    /\ Len(tickLast.before) >= 2
    /\ \E i \in 1..Len(EventOf(tickLast.before, tickLast.ev).cancelRequests) :
          EventOf(tickLast.before, tickLast.ev).cancelRequests[i]
            = tickLast.user
    /\ isIn(EventOf(tickLast.before, tickLast.ev), tickLast.user)

\* C27: every cancel request of an event is by one of its participants.
C27_RequestsOfParticipants ==
    \A k \in 1..Len(events) :
        \A i \in 1..Len(events[k].cancelRequests) :
            isIn(events[k], events[k].cancelRequests[i])

\* C28: no two events of the collection have the same id.
C28_IdsUnique ==
    \A a, b \in 1..Len(events) : a # b => events[a].id # events[b].id

\* A tick generated occurrences for two series whose members were created
\* at the clock value of the tick.
C28_Witness ==
    /\ tickLast.act = "Tick"
    /\ Len(events) >= Len(tickLast.before) + 2
    /\ \E k \in 1..Len(tickLast.before) : tickLast.before[k].id = now

\* C29: makeId returns the smallest integer that is at least the clock
\* value and is not the id of an existing event.
C29_MakeIdSmallest ==
    LET id == makeId(events, now)
    IN  /\ id >= now
        /\ id \notin Ids
        /\ \A k \in now..(id - 1) : k \in Ids

\* The clock value and its successor are ids of existing events.
C29_Witness ==
    /\ now \in Ids
    /\ (now + 1) \in Ids
    /\ makeId(events, now) > now + 1

\* C30: kstToUtcISO gives, on every host, the instant at which the clocks
\* of UTC+9 show the date and time.
C30_HostIndependent ==
    \A k \in 1..Len(events) :
        events[k].time # NoTime
            => kstToUtcISO(events[k].date, events[k].time, host)
                = KstInstant(events[k].date, events[k].time)

\* The days of a month of the Gregorian calendar.
DaysIn(y, m) ==
    IF m = 2
    THEN (IF y % 4 = 0 /\ (y % 100 # 0 \/ y % 400 = 0) THEN 29 ELSE 28)
    ELSE IF m \in {4, 6, 9, 11} THEN 30 ELSE 31

\* The calendar date n days after a date, one day at a time.
RECURSIVE After(_, _)
After(c, n) ==
    IF n = 0 THEN c
    ELSE After(IF c.d < DaysIn(c.y, c.m) THEN [c EXCEPT !.d = c.d + 1]
               ELSE IF c.m < 12 THEN [c EXCEPT !.m = c.m + 1, !.d = 1]
               ELSE [y |-> c.y + 1, m |-> 1, d |-> 1],
               n - 1)

\* C31: on every host, a date and time taken to the instant by kstToUtcISO
\* and back by utcISOToKst are the same date and time.
C31_RoundTrip ==
    tickLast.act = "utcISOToKst"
        => tickLast.back = [date |-> tickLast.date, time |-> tickLast.time]

\* Midnight of 1 January went to an instant of the year before and came
\* back, on a host that is not at UTC.
C31_Witness ==
    /\ tickLast.act = "utcISOToKst"
    /\ host = 13 * 60
    /\ tickLast.date = [y |-> 2025, m |-> 1, d |-> 1]
    /\ tickLast.time = 0
    /\ CivilFromDays(tickLast.iso \div DayMin).y = 2024

\* C32: on every host, add7KstSafe of a date is the calendar date seven
\* days after it.
C32_SevenDays ==
    tickLast.act = "add7KstSafe" => tickLast.next = After(tickLast.date, 7)

\* The events the feed shows.
Shown ==
    LET F == feedByCategory(events, now, host)
    IN  UNION {{F[c][i] : i \in 1..Len(F[c])} : c \in Categories}

\* The members of the series of e that have a time and start after now.
FutureOf(e) ==
    {x \in {events[k] : k \in 1..Len(events)} :
        keyOf(x) = keyOf(e) /\ x.time # NoTime /\ start(x) > now}

\* C33: the feed shows every event that has started or has no time, of
\* every series with members that start later exactly one of them, the
\* earliest, and nothing else; every event is in the bucket of its
\* category, and every bucket is in ascending order of (date, time).
C33_Visibility ==
    LET F == feedByCategory(events, now, host)
    IN  /\ \A k \in 1..Len(events) :
            LET e == events[k]
            IN  IF e.time = NoTime \/ start(e) <= now THEN e \in Shown
                ELSE /\ Cardinality(FutureOf(e) \cap Shown) = 1
                     /\ e \in Shown => \A x \in FutureOf(e) : e.date <= x.date
        /\ \A c \in Categories :
            /\ \A i \in 1..Len(F[c]) :
                /\ F[c][i].category = c
                /\ \E k \in 1..Len(events) : events[k] = F[c][i]
            /\ \A a, b \in 1..Len(F[c]) :
                a < b => /\ notAfter(F[c][a], F[c][b])
                         /\ F[c][a] # F[c][b]

\* The snapshots of a render: the value before it, and after each updater
\* of the queue the result of that updater on the snapshot before it.
RECURSIVE Snapshots(_, _)
Snapshots(q, E) ==
    IF q = <<>> THEN <<E>>
    ELSE LET rest == Snapshots(SubSeq(q, 1, Len(q) - 1), E)
             f    == q[Len(q)]
             prev == rest[Len(rest)]
         IN  Append(rest,
                    IF f.kind = "prune" THEN prune(prev, f.t, host)
                    ELSE IF f.kind = "generate" THEN generate(prev, now, host)
                    ELSE IF f.kind = "set" THEN f.val
                    ELSE joinEvent(prev, f.ev, f.u))

\* C34: the prune step and the generate step of a tick each take the
\* collection the step before left and install their result, whatever else
\* is queued around them; the two steps of a tick are queued together and
\* the steps of two ticks do not interleave; only a render changes the
\* collection; and after the unmount the interval is cleared, nothing is
\* queued and the collection does not change.
C34_TickAtomic ==
    /\ tickLast.act = "RenderEvents"
        => events = Last(Snapshots(tickLast.queue, tickLast.before))
    /\ tickLast.act \in {"IntervalFire", "AbsorbEvents", "JoinClick", "Advance"}
        => events = tickLast.before
    /\ \A i \in 1..Len(queue) :
        /\ queue[i].kind = "prune"
            => i < Len(queue) /\ queue[i + 1].kind = "generate"
        /\ queue[i].kind = "generate"
            => i > 1 /\ queue[i - 1].kind = "prune"
    /\ ~mounted => ~interval /\ queue = <<>>

\* A render applied an absorbed value and then the two steps of a tick,
\* which generated an occurrence of the absorbed event.
C34_Witness ==
    /\ tickLast.act = "RenderEvents"
    /\ Len(tickLast.queue) >= 3
    /\ \E i \in 2..Len(tickLast.queue) :
        /\ tickLast.queue[i].kind = "generate"
        /\ tickLast.queue[1].kind = "set"
    /\ Len(events) = 2

\* C35: the value a debounced write sends is the in-memory value of the
\* channel at the moment the timeout fires.
C35_WriteCarriesValue ==
    last.act = "TimerFire" => last.val = value

\* C36: no write, debounced or immediate, is dispatched before the load of
\* the channel has completed.
C36_NoWriteBeforeReady ==
    last.act \in {"TimerFire", "Flush"} => ready

\* C37: when the re-fetch of a notification fails, the handler leaves the
\* in-memory value and lastSavedStr.current as they were.
C37_FailedRefetch ==
    [][(last'.act \in {"Absorb", "Echo"} /\ last'.val = Err)
        => (value' = value /\ lastSavedStr' = lastSavedStr)]_vars

\* C38: after a load that gave the default, no write is dispatched until a
\* local setValue of a value with another text than the default's.
C38_FallbackWritesNothing ==
    fellBack => last.act \notin {"TimerFire", "Flush"}

\* C39: the participants stored for the event are never more than CAPACITY,
\* and when no join is under way open_for_applications is (number of stored
\* participants < CAPACITY).
C39_TableCapacity ==
    /\ Cardinality(partRows) <= CAPACITY
    /\ (\A c \in Clients : pc[c].at \in {"idle", "done"})
        => openForApps = (Cardinality(partRows) < CAPACITY)
====
